---- MODULE Spec2Model ----
(***************************************************************************)
(* Model of remover/views.py (RemoveBackgroundView.post): an upload is     *)
(* validated by ImageUploadSerializer, opened with PIL, re-encoded into an *)
(* in-memory buffer, handed to rembg.remove, and the outcome is mapped to  *)
(* an HTTP response.                                                       *)
(*                                                                         *)
(* Bytes are sequences over a small alphabet.  An encoded image is a magic *)
(* byte naming its format, then pixel bytes and ancillary bytes, then an   *)
(* end marker; whatever follows the end marker is trailing data.           *)
(*   "P"  PNG magic        "J"  JPEG magic                                 *)
(*   "R"  magic of an image whose plugin reports no format                 *)
(*   "a"  pixel data       "z"  ancillary / non-image byte                 *)
(*   "E"  end-of-image marker                                              *)
(***************************************************************************)
EXTENDS Integers, Sequences, FiniteSets, TLC

\* Longest upload, in bytes, that a request carries in the model.
MaxLen == 4

\* ImageUploadSerializer.MAX_UPLOAD_SIZE, scaled to the model's byte strings.
MAX_UPLOAD_SIZE == 3

Byte == {"P", "J", "R", "a", "z", "E"}
Magic == {"P", "J", "R"}

ByteStrings == UNION {[1..n -> Byte] : n \in 1..MaxLen}

----------------------------------------------------------------------------
\* Values

NoFile == [present |-> FALSE, name |-> "", content_type |-> "", data |-> <<>>]

\* SimpleUploadedFile(name, data, content_type=...)
UploadedFile(name, ct, data) ==
    [present |-> TRUE, name |-> name, content_type |-> ct, data |-> data]

\* name / declared content type pairs used by the requests
Declared == { <<"test.png", "image/png">>,
              <<"not_image.txt", "image/png">>,
              <<"not_image.txt", "text/plain">> }

\* client.get(url), client.post(url, {}), client.post(url, {"image": f})
Requests ==
    { [method |-> "GET", image |-> NoFile], [method |-> "POST", image |-> NoFile] }
    \cup { [method |-> "POST", image |-> UploadedFile(d[1], d[2], b)] :
              d \in Declared, b \in ByteStrings }

NoRequest == [method |-> "", image |-> NoFile]

NoExc == [cls |-> "None", text |-> "", at |-> "none"]

NoImage == [present |-> FALSE, format |-> "None", pixels |-> <<>>, complete |-> FALSE]

EmptyBody == [shape |-> "empty", bytes |-> <<>>, error |-> "", details |-> "", fields |-> {}]

NoSerializer == [valid |-> FALSE, image |-> NoFile, errors |-> {}]

----------------------------------------------------------------------------
\* Exceptions: UnidentifiedImageError < OSError < Exception

ExcClasses == {"Exception", "OSError", "UnidentifiedImageError"}

IsInstance(e, cls) ==
    CASE cls = "UnidentifiedImageError" -> e.cls = "UnidentifiedImageError"
      [] cls = "OSError"   -> e.cls \in {"OSError", "UnidentifiedImageError"}
      [] cls = "Exception" -> e.cls \in ExcClasses
      [] OTHER -> FALSE

----------------------------------------------------------------------------
\* ImageUploadSerializer: presence of the "image" field, then the size ceiling.

RequiredMsg == "No file was submitted."
TooLargeMsg == "Image file too large."

IsValid(data) ==
    IF ~data.present
    THEN [valid |-> FALSE, image |-> NoFile, errors |-> {<<"image", RequiredMsg>>}]
    ELSE IF Len(data.data) > MAX_UPLOAD_SIZE
    THEN [valid |-> FALSE, image |-> NoFile, errors |-> {<<"image", TooLargeMsg>>}]
    ELSE [valid |-> TRUE, image |-> data, errors |-> {}]

----------------------------------------------------------------------------
\* PIL

RECURSIVE IndexOfEnd(_, _)
\* position of the first end marker of b at or after i, 0 when there is none
IndexOfEnd(b, i) ==
    IF i > Len(b) THEN 0
    ELSE IF b[i] = "E" THEN i
    ELSE IndexOfEnd(b, i + 1)

\* the pixel bytes among b[2..last]
PixelsOf(b, last) ==
    SelectSeq(SubSeq(b, 2, last), LAMBDA x : x = "a")

FormatOfMagic(m) ==
    CASE m = "P" -> "PNG"
      [] m = "J" -> "JPEG"
      [] OTHER   -> "None"

MagicOfFormat(f) ==
    CASE f = "PNG"  -> "P"
      [] f = "JPEG" -> "J"

\* Image.open(fp): identifies the file from its leading bytes and reads the
\* header only; the pixel data is loaded lazily.
ImageOpen(fp) ==
    IF Len(fp.data) = 0 \/ fp.data[1] \notin Magic
    THEN [raised |-> TRUE, image |-> NoImage,
          exc |-> [cls |-> "UnidentifiedImageError",
                   text |-> "cannot identify image file", at |-> "open"]]
    ELSE LET e == IndexOfEnd(fp.data, 2)
         IN [raised |-> FALSE,
             image |-> [present |-> TRUE,
                        format |-> FormatOfMagic(fp.data[1]),
                        pixels |-> PixelsOf(fp.data, IF e = 0 THEN Len(fp.data) ELSE e),
                        complete |-> e # 0],
             exc |-> NoExc]

\* im.save(buf, format=f): loads the pixel data (fails on a truncated file)
\* and writes a fresh encoding of the pixels.
ImageSave(im, f) ==
    IF ~im.complete
    THEN [raised |-> TRUE, bytes |-> <<>>,
          exc |-> [cls |-> "OSError", text |-> "image file is truncated", at |-> "save"]]
    ELSE [raised |-> FALSE,
          bytes |-> <<MagicOfFormat(f)>> \o im.pixels \o <<"E">>,
          exc |-> NoExc]

----------------------------------------------------------------------------
\* rembg.remove: opaque; returns bytes or raises.

ResultBytes == { <<>>, <<"P", "E">>, <<"P", "a", "a", "E">> }
ExcTexts == {"boom", ""}

RemoveOutcomes ==
    { [raised |-> FALSE, bytes |-> b, exc |-> NoExc] : b \in ResultBytes }
    \cup { [raised |-> TRUE, bytes |-> <<>>,
            exc |-> [cls |-> c, text |-> t, at |-> "remove"]] :
              c \in ExcClasses, t \in ExcTexts }

----------------------------------------------------------------------------
\* Responses built by the view

JSON == "application/json"

\* variant: the body loses its last byte
SuccessResponse_Truncated(bytes) ==
    [status |-> 200, content_type |-> "image/png",
     body |-> [EmptyBody EXCEPT !.shape = "bytes",
                                !.bytes = SubSeq(bytes, 1, Len(bytes) - 1)]]

\* HttpResponse(output_bytes, content_type="image/png")
SuccessResponse(bytes) ==
    [status |-> 200, content_type |-> "image/png",
     body |-> [EmptyBody EXCEPT !.shape = "bytes", !.bytes = bytes]]

\* Response({"error": "The uploaded file is not a valid image."}, status=400)
InvalidImageResponse ==
    [status |-> 400, content_type |-> JSON,
     body |-> [EmptyBody EXCEPT !.shape = "error",
                                !.error = "The uploaded file is not a valid image."]]

\* Response({"error": "Failed to process image.", "details": str(e)}, status=500)
ProcessingErrorResponse(e) ==
    [status |-> 500, content_type |-> JSON,
     body |-> [EmptyBody EXCEPT !.shape = "error_details",
                                !.error = "Failed to process image.",
                                !.details = e.text]]

\* variant: validation errors reported in the error shape
ValidationErrorResponse_ErrorShape(errors) ==
    [status |-> 400, content_type |-> JSON,
     body |-> [EmptyBody EXCEPT !.shape = "error", !.error = "Invalid upload."]]

\* Response(serializer.errors, status=400)
ValidationErrorResponse(errors) ==
    [status |-> 400, content_type |-> JSON,
     body |-> [EmptyBody EXCEPT !.shape = "fields", !.fields = errors]]

\* APIView.http_method_not_allowed
MethodNotAllowedResponse ==
    [status |-> 405, content_type |-> JSON,
     body |-> [EmptyBody EXCEPT !.shape = "detail"]]

\* variant: the catch-all clause comes first
HandleException_CatchAllFirst(e) == ProcessingErrorResponse(e)

\* the except clauses of post, tried in order
HandleException(e) ==
    IF IsInstance(e, "UnidentifiedImageError") THEN InvalidImageResponse
    ELSE ProcessingErrorResponse(e)

\* variant: the view also answers GET
Handlers_WithGet == {"GET", "POST"}

\* HTTP methods for which RemoveBackgroundView defines a handler
Handlers == {"POST"}

\* variant: the result of is_valid() is ignored
NextPc_SkipValidation(stage, ok) ==
    CASE stage = "validate" -> "open"
      [] stage = "open"     -> IF ok THEN "format" ELSE "done"
      [] stage = "format"   -> "save"
      [] stage = "save"     -> IF ok THEN "remove" ELSE "done"
      [] stage = "remove"   -> IF ok THEN "respond" ELSE "done"
      [] OTHER              -> "done"

\* variant: a failed Image.open does not end the request
NextPc_IgnoreDecodeFailure(stage, ok) ==
    CASE stage = "validate" -> IF ok THEN "open" ELSE "done"
      [] stage = "open"     -> IF ok THEN "format" ELSE "remove"
      [] stage = "format"   -> "save"
      [] stage = "save"     -> IF ok THEN "remove" ELSE "done"
      [] stage = "remove"   -> IF ok THEN "respond" ELSE "done"
      [] OTHER              -> "done"

\* variant: the handler of a failed remove() falls through to the success return
NextPc_FallThrough(stage, ok) ==
    CASE stage = "validate" -> IF ok THEN "open" ELSE "done"
      [] stage = "open"     -> IF ok THEN "format" ELSE "done"
      [] stage = "format"   -> "save"
      [] stage = "save"     -> IF ok THEN "remove" ELSE "done"
      [] stage = "remove"   -> "respond"
      [] OTHER              -> "done"

\* control flow of post: the stage entered after `stage` ended normally (ok)
\* or by an early return / a raised exception (~ok)
NextPc(stage, ok) ==
    CASE stage = "validate" -> IF ok THEN "open" ELSE "done"
      [] stage = "open"     -> IF ok THEN "format" ELSE "done"
      [] stage = "format"   -> "save"
      [] stage = "save"     -> IF ok THEN "remove" ELSE "done"
      [] stage = "remove"   -> IF ok THEN "respond" ELSE "done"
      [] OTHER              -> "done"

\* variant: the encoding is saved as a file
StorageAfterSave_ToDisk(files, bytes) == files \cup {bytes}

\* image_bytes = io.BytesIO(); input_image.save(image_bytes, ...): the encoding
\* goes to an in-memory buffer, the files in storage stay as they are
StorageAfterSave(files, bytes) == files

\* variant: the raw upload is forwarded
RemoveArgument_Raw(file, bytes) == file

\* remove(image_bytes): the argument handed to the removal function
RemoveArgument(file, bytes) == bytes

----------------------------------------------------------------------------
VARIABLES pc, request, serializer, image_file, input_image, image_format,
          image_bytes, remove_call, output_bytes, exc, responses, trace, storage

vars == <<pc, request, serializer, image_file, input_image, image_format,
          image_bytes, remove_call, output_bytes, exc, responses, trace, storage>>

NoCall == [state |-> "none", arg |-> <<>>, bytes |-> <<>>]

Init ==
    /\ pc = "idle"
    /\ request = NoRequest
    /\ serializer = NoSerializer
    /\ image_file = NoFile
    /\ input_image = NoImage
    /\ image_format = "None"
    /\ image_bytes = <<>>
    /\ remove_call = NoCall
    /\ output_bytes = <<>>
    /\ exc = NoExc
    /\ responses = <<>>
    /\ trace = <<>>
    /\ storage = {}

\* a request arrives
Receive ==
    /\ pc = "idle"
    /\ \E r \in Requests : request' = r
    /\ pc' = "dispatch"
    /\ UNCHANGED <<serializer, image_file, input_image, image_format, image_bytes,
                   remove_call, output_bytes, exc, responses, trace, storage>>

\* the response has been sent; nothing of the request outlives it
Finish ==
    /\ pc = "done"
    /\ pc' = "idle"
    /\ request' = NoRequest
    /\ serializer' = NoSerializer
    /\ image_file' = NoFile
    /\ input_image' = NoImage
    /\ image_format' = "None"
    /\ image_bytes' = <<>>
    /\ remove_call' = NoCall
    /\ output_bytes' = <<>>
    /\ exc' = NoExc
    /\ responses' = <<>>
    /\ trace' = <<>>
    /\ UNCHANGED storage

\* APIView.dispatch: only the methods the view defines are handled
Dispatch ==
    /\ pc = "dispatch"
    /\ trace' = Append(trace, "dispatch")
    /\ IF request.method \in Handlers
       THEN /\ pc' = "validate"
            /\ UNCHANGED responses
       ELSE /\ pc' = "done"
            /\ responses' = Append(responses, MethodNotAllowedResponse)
    /\ UNCHANGED <<request, serializer, image_file, input_image, image_format,
                   image_bytes, remove_call, output_bytes, exc, storage>>

\* serializer = ImageUploadSerializer(data=request.data); serializer.is_valid()
Validate ==
    /\ pc = "validate"
    /\ trace' = Append(trace, "is_valid")
    /\ LET s == IsValid(request.image)
       IN /\ serializer' = s
          /\ pc' = NextPc("validate", s.valid)
          /\ image_file' = IF pc' = "done" THEN image_file ELSE s.image
          /\ responses' = IF pc' = "done"
                          THEN Append(responses, ValidationErrorResponse(s.errors))
                          ELSE responses
    /\ UNCHANGED <<request, input_image, image_format, image_bytes, remove_call,
                   output_bytes, exc, storage>>

\* input_image = Image.open(image_file)
Open ==
    /\ pc = "open"
    /\ trace' = Append(trace, "open")
    /\ LET r == ImageOpen(image_file)
       IN /\ pc' = NextPc("open", ~r.raised)
          /\ input_image' = r.image
          /\ exc' = IF r.raised THEN r.exc ELSE exc
          /\ responses' = IF r.raised
                          THEN Append(responses, HandleException(r.exc))
                          ELSE responses
    /\ UNCHANGED <<request, serializer, image_file, image_format, image_bytes,
                   remove_call, output_bytes, storage>>

\* image_format = input_image.format if input_image.format else "PNG"
Format ==
    /\ pc = "format"
    /\ trace' = Append(trace, "format")
    /\ image_format' = IF input_image.format # "None" THEN input_image.format ELSE "PNG"
    /\ pc' = NextPc("format", TRUE)
    /\ UNCHANGED <<request, serializer, image_file, input_image, image_bytes,
                   remove_call, output_bytes, exc, responses, storage>>

\* image_bytes = io.BytesIO(); input_image.save(...); image_bytes.getvalue()
Save ==
    /\ pc = "save"
    /\ trace' = Append(trace, "save")
    /\ LET r == ImageSave(input_image, image_format)
       IN /\ pc' = NextPc("save", ~r.raised)
          /\ image_bytes' = IF r.raised THEN image_bytes ELSE r.bytes
          /\ storage' = IF r.raised THEN storage ELSE StorageAfterSave(storage, r.bytes)
          /\ exc' = IF r.raised THEN r.exc ELSE exc
          /\ responses' = IF r.raised
                          THEN Append(responses, HandleException(r.exc))
                          ELSE responses
    /\ UNCHANGED <<request, serializer, image_file, input_image, image_format,
                   remove_call, output_bytes>>

\* output_bytes = remove(image_bytes)
Remove ==
    /\ pc = "remove"
    /\ trace' = Append(trace, "remove")
    /\ \E o \in RemoveOutcomes :
          /\ pc' = NextPc("remove", ~o.raised)
          /\ remove_call' = [state |-> IF o.raised THEN "raised" ELSE "returned",
                             arg |-> RemoveArgument(image_file.data, image_bytes),
                             bytes |-> o.bytes]
          /\ output_bytes' = IF o.raised THEN output_bytes ELSE o.bytes
          /\ exc' = IF o.raised THEN o.exc ELSE exc
          /\ responses' = IF o.raised
                          THEN Append(responses, HandleException(o.exc))
                          ELSE responses
    /\ UNCHANGED <<request, serializer, image_file, input_image, image_format,
                   image_bytes, storage>>

\* return HttpResponse(output_bytes, content_type="image/png")
Respond ==
    /\ pc = "respond"
    /\ trace' = Append(trace, "respond")
    /\ responses' = Append(responses, SuccessResponse(output_bytes))
    /\ pc' = NextPc("respond", TRUE)
    /\ UNCHANGED <<request, serializer, image_file, input_image, image_format,
                   image_bytes, remove_call, output_bytes, exc, storage>>

Next ==
    \/ Receive
    \/ Dispatch
    \/ Validate
    \/ Open
    \/ Format
    \/ Save
    \/ Remove
    \/ Respond
    \/ Finish

Spec == Init /\ [][Next]_vars

----------------------------------------------------------------------------
\* Properties

Has(ev) == \E i \in 1..Len(trace) : trace[i] = ev

Count(ev) == Cardinality({i \in 1..Len(trace) : trace[i] = ev})

First(ev) == CHOOSE i \in 1..Len(trace) : trace[i] = ev /\ \A j \in 1..(i - 1) : trace[j] # ev

IsPost == request.method = "POST"

HasUpload == IsPost /\ request.image.present

\* the upload's bytes are not identified as an image
Undecodable == HasUpload /\ request.image.data[1] \notin Magic

Oversized == HasUpload /\ Len(request.image.data) > MAX_UPLOAD_SIZE

IsValidationError(r) == r.status = 400 /\ r.body.shape = "fields"

IsDecodeError(r) ==
    /\ r.status = 400
    /\ r.body.shape = "error"
    /\ r.body.error = "The uploaded file is not a valid image."

IsSuccess(r) == r.status = 200 /\ r.content_type = "image/png" /\ r.body.shape = "bytes"

IsProcessingError(r) ==
    /\ r.status = 500
    /\ r.body.shape = "error_details"
    /\ r.body.error = "Failed to process image."

\* C1: when the upload passed validation and was opened as an image and the
\* removal function returned bytes B, the one response is 200, image/png, and
\* its body is B byte for byte.
C1_SuccessBodyVerbatim ==
    (pc = "done" /\ serializer.valid /\ input_image.present
        /\ remove_call.state = "returned")
    => /\ Len(responses) = 1
       /\ responses[1].status = 200
       /\ responses[1].content_type = "image/png"
       /\ responses[1].body.shape = "bytes"
       /\ responses[1].body.bytes = remove_call.bytes

C1_Witness ==
    /\ pc = "done"
    /\ serializer.valid
    /\ input_image.present
    /\ remove_call.state = "returned"
    /\ remove_call.bytes = <<"P", "a", "a", "E">>
    /\ Len(responses) = 1

\* C2: when the upload passed validation and was opened as an image, any error
\* raised afterwards (while re-encoding or by the removal function) gives the
\* response 500 with error "Failed to process image." and details the error's
\* text.
C2_LaterErrorsAre500 ==
    (pc = "done" /\ serializer.valid /\ input_image.present
        /\ exc.at \in {"save", "remove"})
    => /\ Len(responses) = 1
       /\ responses[1].status = 500
       /\ responses[1].body.shape = "error_details"
       /\ responses[1].body.error = "Failed to process image."
       /\ responses[1].body.details = exc.text

\* C3 as stated: every POST whose upload is not identified as an image gets
\* 400 with the error message saying the file is not a valid image.
C3_UndecodableIsInvalidImage ==
    (pc = "done" /\ Undecodable)
    => /\ Len(responses) = 1
       /\ IsDecodeError(responses[1])
       /\ responses[1].status # 200
       /\ responses[1].status # 500

\* C3 amended: every POST whose upload passes validation and is not identified
\* as an image gets 400 with the error message saying the file is not a valid
\* image, never 200 and never 500.
C3_ValidUndecodableIsInvalidImage ==
    (pc = "done" /\ Undecodable /\ serializer.valid)
    => /\ Len(responses) = 1
       /\ IsDecodeError(responses[1])
       /\ responses[1].status \notin {200, 500}

C3_Witness ==
    /\ pc = "done"
    /\ request.image.data = <<"z", "a", "E">>
    /\ request.image.name = "not_image.txt"
    /\ request.image.content_type = "image/png"
    /\ serializer.valid
    /\ Has("open")
    /\ Len(responses) = 1

\* C4: every POST whose upload is larger than the maximum size gets 400,
\* whether or not its bytes start with a valid image, and no decode attempt
\* (and no removal call) is made for it.
C4_OversizedRejectedBeforeDecode ==
    Oversized
    => /\ ~Has("open")
       /\ ~Has("remove")
       /\ pc = "done" => (Len(responses) = 1 /\ responses[1].status = 400)

C4_Witness ==
    /\ pc = "done"
    /\ request.image.data = <<"P", "a", "E", "z">>
    /\ Len(responses) = 1
    /\ responses[1].status = 400

\* C5: every POST without an image field gets 400 and the body is the
\* validator's field-keyed error mapping, not the error/details shape.
C5_MissingImageFieldKeyed ==
    (pc = "done" /\ IsPost /\ ~request.image.present)
    => /\ Len(responses) = 1
       /\ responses[1].status = 400
       /\ responses[1].body.shape = "fields"
       /\ responses[1].body.fields = serializer.errors
       /\ responses[1].body.fields # {}
       /\ \A f \in responses[1].body.fields : f[1] = "image"
       /\ responses[1].body.error = ""
       /\ responses[1].body.details = ""

C5_Witness ==
    /\ pc = "done"
    /\ IsPost
    /\ ~request.image.present
    /\ Len(responses) = 1

\* C6: no step of any request changes the set of files in storage.
C6_StorageUnchanged == [][storage' = storage]_vars

C6_Witness ==
    /\ pc = "done"
    /\ Has("save")
    /\ Len(responses) = 1
    /\ responses[1].status = 200
    /\ storage = {}

\* C7: a GET request is answered 405 (or 404) and triggers no validation, no
\* decoding and no removal call.
C7_GetNotHandled ==
    (request.method = "GET" /\ pc \notin {"idle", "dispatch"})
    => /\ pc = "done"
       /\ trace = <<"dispatch">>
       /\ Len(responses) = 1
       /\ responses[1].status \in {404, 405}
       /\ remove_call.state = "none"

C7_Witness ==
    /\ request.method = "GET"
    /\ pc = "done"
    /\ Len(responses) = 1

\* C8: within one request the removal function is invoked at most once and
\* only after validation passed and the upload was opened successfully; a
\* request that fails validation reaches neither the decode step nor the
\* removal call, and a request whose decode fails makes no removal call.
C8_RemovalOnlyAfterDecode ==
    /\ Count("remove") <= 1
    /\ Has("remove") =>
          /\ serializer.valid
          /\ input_image.present
          /\ Has("is_valid") /\ Has("open")
          /\ First("is_valid") < First("open")
          /\ First("open") < First("remove")
    /\ (Has("is_valid") /\ ~serializer.valid) => (~Has("open") /\ ~Has("remove"))
    /\ (Has("open") /\ ~input_image.present) => ~Has("remove")

C8_Witness ==
    /\ pc = "done"
    /\ Count("remove") = 1
    /\ serializer.valid
    /\ input_image.present

\* C9: whenever the removal function is invoked its argument is the fresh
\* encoding of the decoded image in the detected format (PNG when none was
\* detected): the format's magic, the upload's pixel data, the end marker, and
\* nothing after it; the upload's trailing data is absent.
C9_RemovalGetsReencodedImage ==
    remove_call.state # "none"
    => LET u == request.image.data
           a == remove_call.arg
           e == IndexOfEnd(u, 2)
       IN /\ HasUpload
          /\ e # 0
          /\ Len(a) >= 2
          /\ a[1] = (IF u[1] = "J" THEN "J" ELSE "P")
          /\ a[Len(a)] = "E"
          /\ IndexOfEnd(a, 1) = Len(a)
          /\ \A i \in 2..(Len(a) - 1) : a[i] = "a"
          /\ Len(a) - 2 = Cardinality({i \in 2..e : u[i] = "a"})
          /\ a = image_bytes

C9_Witness ==
    /\ remove_call.state # "none"
    /\ request.image.data = <<"P", "E", "z">>
    /\ remove_call.arg = <<"P", "E">>

\* C10: every POST request that ends has produced exactly one response, which
\* is a validation-error 400, a decode-error 400, a success 200 or a
\* processing-error 500; a response is only ever produced by the step that
\* ends the request, and after it no further step of that request occurs.
C10_OneTerminalOutcome ==
    /\ [](/\ Len(responses) <= 1
          /\ Len(responses) = 1 => pc = "done"
          /\ (pc = "done" /\ IsPost) =>
                /\ Len(responses) = 1
                /\ \/ IsValidationError(responses[1]) /\ ~serializer.valid
                   \/ IsDecodeError(responses[1]) /\ serializer.valid
                   \/ IsSuccess(responses[1]) /\ remove_call.state = "returned"
                   \/ IsProcessingError(responses[1]) /\ serializer.valid)
    /\ [][pc = "done" => (pc' = "idle" /\ responses' = <<>> /\ trace' = <<>>)]_vars

C10_Witness ==
    /\ pc = "done"
    /\ IsPost
    /\ Len(responses) = 1
    /\ IsProcessingError(responses[1])

====
